---------------------------- MODULE Spec2Model ----------------------------
(***************************************************************************)
(* Model of the diet-tracking single-page application (the React component *)
(* App with its handlers callGPT, registerRecipe, startEditRecipe,          *)
(* saveEditedRecipe, deleteRecipe and its derived totals) and of the        *)
(* server-side proxy handler api/chat.ts.                                   *)
(*                                                                          *)
(* Numbers.  JavaScript numbers are modelled as IEEE-754 doubles: every    *)
(* operation rounds its exact result to the nearest double, so that         *)
(* toFixed sees the double the code sees, and toFixed writes a number of    *)
(* magnitude 1e21 or more in the exponent form of String.  A result of     *)
(* magnitude 2^1024 or more is Infinity, one below 2^-1022 is rounded to a  *)
(* multiple of 2^-1074.                                                     *)
(*                                                                          *)
(* Strings.  A string is a sequence of one-character strings, so that the   *)
(* unit parser (regex strip + parseFloat) and the formatter (toFixed) are   *)
(* computed character by character as the code computes them.               *)
(***************************************************************************)
EXTENDS Integers, Sequences, FiniteSets, TLC

-----------------------------------------------------------------------------
(* Bounds of the model *)

MaxItems == 2
MaxClock == 2
MaxRequests == 2
MaxSteps == 7
MaxLen == 4
HugeLen == 310

-----------------------------------------------------------------------------
(* Numbers.  A JavaScript number is an IEEE-754 double.  A finite double is *)
(* <<s, m, e>>: its value is s * m * 2^e with s the sign (-1, 0, 1) and m   *)
(* an odd natural number below 2^53 (0 for the number 0), so that equal     *)
(* numbers are equal tuples.  m is written in limbs: the sequence of its    *)
(* digits in base 2^14, the lowest first, without leading zeros.  Every    *)
(* operation computes the exact result and rounds it to the nearest double, *)
(* ties to the even mantissa, as the hardware does: to a multiple of       *)
(* 2^-1074 when the result is below 2^-1022 (subnormal numbers), and to     *)
(* Infinity, <<3 * s, <<>>, 0>>, when the rounded result is 2^1024 or more. *)
(* Not-a-number is <<2, <<>>, 0>>.  The sign of zero is not kept.           *)

Base == 128 * 128
LimbBits == 2 * 7
MantBits == 52 + 1

Min(a, b) == IF a <= b THEN a ELSE b

RECURSIVE Pow2(_)
Pow2(k) == IF k = 0 THEN 1 ELSE 2 * Pow2(k - 1)

\* natural numbers of any size, in limbs
RECURSIVE BNorm(_)
BNorm(a) ==
    IF a = <<>> THEN <<>>
    ELSE IF a[Len(a)] = 0 THEN BNorm(SubSeq(a, 1, Len(a) - 1)) ELSE a

RECURSIVE BFromInt(_)
BFromInt(k) == IF k = 0 THEN <<>> ELSE <<k % Base>> \o BFromInt(k \div Base)

Limb(a, i) == IF i <= Len(a) THEN a[i] ELSE 0

\* a * k + b * j from limb i on, with the carry c (a borrow when c < 0),
\* for a result that is not negative
RECURSIVE BLinAt(_, _, _, _, _, _)
BLinAt(a, k, b, j, i, c) ==
    IF i > Len(a) /\ i > Len(b) THEN (IF c = 0 THEN <<>> ELSE <<c>>)
    ELSE <<(Limb(a, i) * k + Limb(b, i) * j + c) % Base>>
         \o BLinAt(a, k, b, j, i + 1, (Limb(a, i) * k + Limb(b, i) * j + c) \div Base)

BAdd(a, b) == BLinAt(a, 1, b, 1, 1, 0)

\* a - b for a >= b
BSub(a, b) == BNorm(BLinAt(a, 1, b, 0 - 1, 1, 0))

RECURSIVE BCmpAt(_, _, _)
BCmpAt(a, b, i) ==
    IF i = 0 THEN 0
    ELSE IF a[i] < b[i] THEN -1
    ELSE IF a[i] > b[i] THEN 1
    ELSE BCmpAt(a, b, i - 1)

\* -1, 0, 1 as a < b, a = b, a > b
BCmp(a, b) ==
    IF Len(a) < Len(b) THEN -1
    ELSE IF Len(a) > Len(b) THEN 1
    ELSE BCmpAt(a, b, Len(a))

\* a * k for a limb k
BMulSmall(a, k) == IF k = 0 THEN <<>> ELSE BLinAt(a, k, <<>>, 0, 1, 0)

\* a times the limbs from i on of b
RECURSIVE BMulAt(_, _, _)
BMulAt(a, b, i) ==
    IF i > Len(b) THEN <<>>
    ELSE BAdd(BMulSmall(a, b[i]), <<0>> \o BMulAt(a, b, i + 1))

\* quotient and remainder of the limbs from i on of a by a limb k > 0
RECURSIVE BDivSmallAt(_, _, _)
BDivSmallAt(a, k, i) ==
    IF i > Len(a) THEN [q |-> <<>>, r |-> 0]
    ELSE LET hi == BDivSmallAt(a, k, i + 1)
         IN  [q |-> <<(hi.r * Base + a[i]) \div k>> \o hi.q,
              r |-> (hi.r * Base + a[i]) % k]

\* quotient and remainder of a by a limb k > 0
BDivSmall(a, k) ==
    LET d == BDivSmallAt(a, k, 1) IN [q |-> BNorm(d.q), r |-> d.r]

RECURSIVE BitLenSmall(_)
BitLenSmall(x) == IF x = 0 THEN 0 ELSE 1 + BitLenSmall(x \div 2)

BBitLen(a) ==
    IF a = <<>> THEN 0 ELSE LimbBits * (Len(a) - 1) + BitLenSmall(a[Len(a)])

BIsOdd(a) == a # <<>> /\ a[1] % 2 = 1

\* a * 2^k
BShl(a, k) ==
    IF a = <<>> THEN <<>>
    ELSE [i \in 1..(k \div LimbBits) |-> 0] \o BMulSmall(a, Pow2(k % LimbBits))

\* a \div 2^k, and whether a bit that is 1 was shifted out
BShr(a, k) ==
    LET n == Min(k \div LimbBits, Len(a))
        d == BDivSmall(SubSeq(a, n + 1, Len(a)), Pow2(k % LimbBits))
    IN  [q |-> d.q, sticky |-> d.r # 0 \/ \E i \in 1..n : a[i] # 0]

\* the number of 0 bits at the low end of a > 0
RECURSIVE TzSmall(_)
TzSmall(x) == IF x % 2 = 1 THEN 0 ELSE 1 + TzSmall(x \div 2)

RECURSIVE BTzAt(_, _)
BTzAt(a, i) == IF a[i] # 0 THEN TzSmall(a[i]) ELSE LimbBits + BTzAt(a, i + 1)

\* the largest limb q <= qhat with b * q <= r
RECURSIVE BDivDigit(_, _, _)
BDivDigit(r, b, qhat) ==
    IF BCmp(BMulSmall(b, qhat), r) > 0 THEN BDivDigit(r, b, qhat - 1) ELSE qhat

\* long division of the limbs i, ..., 1 of a by b, whose highest limb is at
\* least Base / 2, with r the remainder of the limbs above i
RECURSIVE BDivLongAt(_, _, _, _)

\* the rest of the division once the digit qd of limb i is known
BDivLongDigit(a, b, i, r1, qd) ==
    LET lo == BDivLongAt(a, b, i - 1, BSub(r1, BMulSmall(b, qd)))
    IN  [q |-> lo.q \o <<qd>>, r |-> lo.r]

\* the digit of limb i: r1 is the remainder so far followed by limb i
BDivLongStep(a, b, i, r1) ==
    BDivLongDigit(a, b, i, r1,
        BDivDigit(r1, b,
            Min((Limb(r1, Len(b) + 1) * Base + Limb(r1, Len(b))) \div b[Len(b)],
                Base - 1)))

BDivLongAt(a, b, i, r) ==
    IF i = 0 THEN [q |-> <<>>, r |-> r]
    ELSE BDivLongStep(a, b, i, BNorm(<<a[i]>> \o r))

\* the quotient of a by b > 0, and whether the remainder is not 0; for the
\* long division a and b are multiplied by the power of 2 that makes the
\* highest limb of b at least Base / 2
BDivMod(a, b) ==
    IF Len(b) = 1
    THEN LET d == BDivSmall(a, b[1]) IN [q |-> d.q, rest |-> d.r # 0]
    ELSE LET sh == LimbBits - BitLenSmall(b[Len(b)])
             d == BDivLongAt(BShl(a, sh), BShl(b, sh), Len(BShl(a, sh)), <<>>)
         IN  [q |-> BNorm(d.q), rest |-> d.r # <<>>]

\* not-a-number; the infinity of sign s is <<3 * s, <<>>, 0>>
NaN == <<2, <<>>, 0>>
Infinity(s) == <<3 * s, <<>>, 0>>
IsFinite(a) == a[1] \in {0 - 1, 0, 1}

Zero == <<0, <<>>, 0>>

\* the number s * m * 2^e for an m > 0, with m made odd
Canon(s, m, e) ==
    LET tz == BTzAt(m, 1) IN <<s, BShr(m, tz).q, e + tz>>

\* the double for the rounded magnitude m * 2^e: 0 when m is 0 (underflow),
\* Infinity when it is 2^1024 or more (overflow)
Bounded(s, m, e) ==
    IF m = <<>> THEN Zero
    ELSE IF BBitLen(m) + e > 1024 THEN Infinity(s)
    ELSE Canon(s, m, e)

\* the double nearest to s * (sh.q / 2 + f) * 2^e: sh.q is the mantissa with
\* one bit more than a double keeps, and the fraction f below that bit is
\* not 0 when sh.sticky or sticky
RoundShifted(s, sh, e, sticky) ==
    LET q == BDivSmall(sh.q, 2).q
    IN  Bounded(s,
                IF BIsOdd(sh.q) /\ (sh.sticky \/ sticky \/ BIsOdd(q))
                THEN BAdd(q, <<1>>) ELSE q,
                e)

\* the double nearest to s * (m + f) * 2^e, where f is a fraction of 1 that
\* is not 0 when sticky (then m has more than 53 bits), the even mantissa on
\* a tie.  drop is the number of low bits of m that a double does not keep:
\* those beyond 53 bits, and those below 2^-1074.
RoundToDouble(s, m, e, sticky) ==
    LET drop == IF BBitLen(m) - MantBits >= 0 - 1074 - e
                THEN BBitLen(m) - MantBits ELSE 0 - 1074 - e
    IN  IF drop <= 0 THEN Bounded(s, m, e)
        ELSE RoundShifted(s, BShr(m, drop - 1), e + drop, sticky)

RoundQuotient(s, dv, e) == RoundToDouble(s, dv.q, e, dv.rest)

\* the double nearest to s * (n / d) * 2^e for n > 0 and d > 0: the quotient
\* is taken with two bits more than a double keeps
RoundRatio(s, n, d, e) ==
    LET k == IF MantBits + 2 + BBitLen(d) - BBitLen(n) > 0
             THEN MantBits + 2 + BBitLen(d) - BBitLen(n) ELSE 0
    IN  RoundQuotient(s, BDivMod(BShl(n, k), d), e - k)

\* the number an integer literal denotes
IntNum(k) ==
    RoundToDouble(IF k < 0 THEN 0 - 1 ELSE IF k = 0 THEN 0 ELSE 1,
                  BFromInt(IF k < 0 THEN 0 - k ELSE k), 0, FALSE)

\* a * b
RMul(a, b) ==
    IF a = NaN \/ b = NaN THEN NaN
    ELSE IF ~IsFinite(a) \/ ~IsFinite(b)
    THEN (IF a = Zero \/ b = Zero THEN NaN
          ELSE Infinity(IF (a[1] > 0) = (b[1] > 0) THEN 1 ELSE 0 - 1))
    ELSE IF a = Zero \/ b = Zero THEN Zero
    ELSE RoundToDouble(a[1] * b[1], BNorm(BMulAt(a[2], b[2], 1)), a[3] + b[3], FALSE)

\* the number s * m * 2^e: rounded to a double, or as it is
MakeNum(s, m, e, exact) ==
    IF m = <<>> THEN Zero
    ELSE IF exact THEN Canon(s, m, e) ELSE RoundToDouble(s, m, e, FALSE)

\* sa * x * 2^e + sb * y * 2^e, where c compares x with y
SumCmp(sa, x, sb, y, e, exact, c) ==
    MakeNum(IF c >= 0 THEN sa ELSE sb,
            IF sa = sb THEN BAdd(x, y)
            ELSE IF c >= 0 THEN BSub(x, y) ELSE BSub(y, x),
            e, exact)

\* a and b brought to the common exponent e
SumAligned(a, b, e, exact) ==
    LET x == BShl(a[2], a[3] - e)
        y == BShl(b[2], b[3] - e)
    IN  SumCmp(a[1], x, b[1], y, e, exact, BCmp(x, y))

\* the sum of a and b: exact, or rounded to a double
Sum(a, b, exact) ==
    IF a = NaN \/ b = NaN THEN NaN
    ELSE IF ~IsFinite(a) THEN (IF IsFinite(b) \/ b = a THEN a ELSE NaN)
    ELSE IF ~IsFinite(b) THEN b
    ELSE IF a = Zero THEN b
    ELSE IF b = Zero THEN a
    ELSE SumAligned(a, b, Min(a[3], b[3]), exact)

\* a / b
RDiv(a, b) ==
    IF a = NaN \/ b = NaN THEN NaN
    ELSE IF ~IsFinite(a)
    THEN (IF ~IsFinite(b) THEN NaN
          ELSE Infinity(IF (a[1] > 0) = (b[1] >= 0) THEN 1 ELSE 0 - 1))
    ELSE IF ~IsFinite(b) THEN Zero
    ELSE IF b = Zero THEN (IF a = Zero THEN NaN ELSE Infinity(a[1]))
    ELSE IF a = Zero THEN Zero
    ELSE RoundRatio(a[1] * b[1], a[2], b[2], a[3] - b[3])

-----------------------------------------------------------------------------
(* Strings *)

Digits == <<"0", "1", "2", "3", "4", "5", "6", "7", "8", "9">>
IsDigit(c) == \E i \in 1..10 : Digits[i] = c

\* the decimal digits of a natural number in limbs (none for 0), four
\* digits at a time
RECURSIVE BigStr(_)
BigStr(a) ==
    IF a = <<>> THEN <<>>
    ELSE IF Len(a) = 1 /\ a[1] < 10000
    THEN BigStr(BFromInt(a[1] \div 10)) \o <<Digits[(a[1] % 10) + 1]>>
    ELSE LET d == BDivSmall(a, 10000)
         IN  BigStr(d.q)
             \o <<Digits[(d.r \div 1000) + 1], Digits[((d.r \div 100) % 10) + 1],
                  Digits[((d.r \div 10) % 10) + 1], Digits[(d.r % 10) + 1]>>

\* the digit at place i of s as a number, 0 before the first place
DigitAt(s, i) == IF i < 1 THEN 0 ELSE (CHOOSE k \in 1..10 : Digits[k] = s[i]) - 1

\* the natural number a string of digits denotes, in limbs, four digits at
\* a time
RECURSIVE DigitsVal(_)
DigitsVal(s) ==
    IF s = <<>> THEN <<>>
    ELSE BAdd(BMulSmall(IF Len(s) <= 4 THEN <<>>
                        ELSE DigitsVal(SubSeq(s, 1, Len(s) - 4)), 10000),
              BFromInt(DigitAt(s, Len(s) - 3) * 1000 + DigitAt(s, Len(s) - 2) * 100
                       + DigitAt(s, Len(s) - 1) * 10 + DigitAt(s, Len(s))))

\* s.replace(/[^\d.\-]+/g, ""): the digits, "." and "-" of s, in order
StripNonNumeric(s) == SelectSeq(s, LAMBDA c : IsDigit(c) \/ c = "." \/ c = "-")

\* the run of digits of s that starts at position i
DigitRun(s, i) ==
    SubSeq(s, i, IF \A j \in i..Len(s) : IsDigit(s[j]) THEN Len(s)
                 ELSE (CHOOSE j \in i..Len(s) :
                           ~IsDigit(s[j]) /\ \A h \in i..(j - 1) : IsDigit(s[h])) - 1)

\* the digits of s without the zeros at its end
StripZeros(s) ==
    SubSeq(s, 1, CHOOSE k \in 0..Len(s) :
                     /\ k = 0 \/ s[k] # "0"
                     /\ \A j \in (k + 1)..Len(s) : s[j] = "0")

\* k digits 0
Zeros(k) == [i \in 1..k |-> "0"]

\* the double nearest to the decimal number with the sign s, the digits ds
\* and the decimal exponent k, s * ds * 10^k: the ratio of ds with k zeros
\* after it (k > 0) to 1 with -k zeros after it (k < 0).  With n digits from
\* the first one that is not 0 on, the number is 10^(n + k - 1) or more and
\* below 10^(n + k): Infinity when n + k > 309 (10^309 > 2^1024), 0 when
\* n + k < -323 (10^-324 < 2^-1075).
ParseDecimal(s, ds, k) ==
    LET n == IF \A i \in 1..Len(ds) : ds[i] = "0" THEN 0
             ELSE Len(ds) + 1 - (CHOOSE i \in 1..Len(ds) :
                                     ds[i] # "0" /\ \A j \in 1..(i - 1) : ds[j] = "0")
    IN  IF n > 0 /\ n + k > 309 THEN Infinity(s)
        ELSE IF n = 0 \/ n + k < 0 - 323 THEN Zero
        ELSE RoundRatio(s, DigitsVal(ds \o Zeros(IF k > 0 THEN k ELSE 0)),
                        DigitsVal(<<"1">> \o Zeros(IF k < 0 THEN 0 - k ELSE 0)), 0)

\* the value of the exponent part of a decimal literal at place h of s (e or
\* E, a sign if there is one, digits if there are any), 0 when there is none
ExponentAt(s, h) ==
    IF h <= Len(s) /\ s[h] \in {"e", "E"}
    THEN (IF h < Len(s) /\ s[h + 1] = "-" THEN 0 - 1 ELSE 1)
         * Limb(DigitsVal(DigitRun(s, IF h < Len(s) /\ s[h + 1] \in {"+", "-"}
                                      THEN h + 2 ELSE h + 1)), 1)
    ELSE 0

\* the number of the literal with the sign sg, the integer digits ip and the
\* fraction digits fp, whose mantissa ends before place h of s
ParseLiteral(s, sg, ip, fp, h) ==
    IF ip = <<>> /\ fp = <<>> THEN NaN
    ELSE ParseDecimal(sg, ip \o fp, ExponentAt(s, h) - Len(fp))

\* parseFloat: the longest prefix of s that is a decimal literal
\* ([-] digits [. [digits]] or [-] . digits, then e or E, a sign and digits
\* if there are any), read as the double nearest to the decimal number; NaN
\* when there is none.  ip are the integer digits, j is the place after
\* them, fp are the fraction digits.
parseFloat(s) ==
    LET neg == s # <<>> /\ s[1] = "-"
        ip == DigitRun(s, IF neg THEN 2 ELSE 1)
        j == (IF neg THEN 2 ELSE 1) + Len(ip)
        dot == j <= Len(s) /\ s[j] = "."
        fp == IF dot THEN DigitRun(s, j + 1) ELSE <<>>
    IN  ParseLiteral(s, IF neg THEN 0 - 1 ELSE 1, ip, fp,
                     IF dot THEN j + 1 + Len(fp) ELSE j)

-----------------------------------------------------------------------------
(* Utils *)

\* the value of an absent (undefined) optional field; no string equals it,
\* because a string is a sequence of one-character strings
Undefined == <<"undefined">>

\* a value of a field that is neither a string nor falsy, such as the number
\* 120: it has no replace method, so numFromUnitString throws on it, and the
\* callers below ask Throws before they apply numFromUnitString
NotAString == <<"number">>

\* isNaN(n) ? 0 : n
NumOrZero(n) == IF n = NaN THEN Zero ELSE n

numFromUnitString(v) ==
    IF v = Undefined \/ v = <<>> THEN Zero
    ELSE NumOrZero(parseFloat(StripNonNumeric(v)))

\* the number of tenths nearest to m * 2^e, the larger on a tie: q is twice
\* the number of tenths, rounded down
Tenths(m, e) ==
    IF e >= 0 THEN BShl(BMulSmall(m, 10), e)
    ELSE LET q == BShr(BMulSmall(m, 10), (0 - e) - 1).q
         IN  BAdd(BDivSmall(q, 2).q, IF BIsOdd(q) THEN <<1>> ELSE <<>>)

\* a decimal with k significant digits next to the integer with the digits
\* ds, zeros included: the nearest one (the even one on a tie) when nearer,
\* the one on the other side of the integer when not
Candidate(ds, k, nearer) ==
    LET up == /\ k < Len(ds)
              /\ \/ ds[k + 1] \in {"6", "7", "8", "9"}
                 \/ /\ ds[k + 1] = "5"
                    /\ \/ StripZeros(SubSeq(ds, k + 2, Len(ds))) # <<>>
                       \/ ds[k] \in {"1", "3", "5", "7", "9"}
    IN  (IF up = nearer
         THEN BigStr(BAdd(DigitsVal(SubSeq(ds, 1, k)), <<1>>))
         ELSE SubSeq(ds, 1, k))
        \o Zeros(Len(ds) - k)

\* String(x) for x = m * 2^e >= 1e21, step 1: the digits of the decimal with
\* the fewest significant digits that denotes the double x, the nearest to x
\* of these (the even one on a tie), zeros included.  ds are the digits of
\* the exact value of x; the candidates are tried from one significant digit
\* on, the nearer one first.
ShortestDigits(ds, m, e) ==
    Head(SelectSeq([i \in 1..(2 * Len(ds)) |-> Candidate(ds, (i + 1) \div 2, i % 2 = 1)],
                   LAMBDA c : RoundToDouble(1, DigitsVal(c), 0, FALSE) = <<1, m, e>>))

\* String(x) for x >= 1e21, step 2: the first significant digit, "." and
\* the other significant digits if there are any, "e+" and the exponent
ExpStr(fs) ==
    <<fs[1]>>
    \o (IF Len(StripZeros(fs)) > 1 THEN <<".">> \o Tail(StripZeros(fs)) ELSE <<>>)
    \o <<"e", "+">> \o BigStr(BFromInt(Len(fs) - 1))

\* the string of toFixed(1) for the number with the sign s and the magnitude
\* m * 2^e, of which ds are the digits of the number of tenths: the decimal
\* with one fractional digit, or String of the magnitude when it is 1e21 or
\* more (22 integer digits)
FixedStr(s, ds, m, e) ==
    (IF s < 0 THEN <<"-">> ELSE <<>>)
    \o (IF Len(ds) >= 23
        THEN ExpStr(ShortestDigits(SubSeq(ds, 1, Len(ds) - 1), m, e))
        ELSE (IF Len(ds) <= 1 THEN <<"0">> ELSE SubSeq(ds, 1, Len(ds) - 1))
             \o <<".", IF ds = <<>> THEN "0" ELSE ds[Len(ds)]>>)

\* n.toFixed(1) for a finite n.  Below 1e21: the decimal with one fractional
\* digit nearest to the exact value of the double n, the larger magnitude on
\* a tie, with a leading "-" when n < 0 (also when the digits are 0.0).
\* From 1e21 on: "-" when n < 0 and String(|n|), the exponent form without a
\* fractional digit of its own ("3e+21", "1.5e+21").  The digits are
\* computed by recursion over the limbs, which TLC evaluates for magnitudes
\* up to about 1e60; the specifications format no larger number.
toFixed(n) == FixedStr(n[1], BigStr(Tenths(n[2], n[3])), n[2], n[3])

\* Number.isFinite(n) ? n.toFixed(d) : "0.0"
toFixedSafe(n) == IF IsFinite(n) THEN toFixed(n) ELSE <<"0", ".", "0">>

\* Number(s) for s a result of toFixedSafe (a decimal literal, which Number
\* and parseFloat read alike)
Number(s) == parseFloat(s)

-----------------------------------------------------------------------------
(* Types *)

\* MealTime: "morning" is the slot "朝", "lunch" is "昼", "dinner" is "夜";
\* the order is the key order of the DayRecord literal
MealTimes == <<"morning", "lunch", "dinner">>
MealTimeSet == {MealTimes[i] : i \in 1..3}

EmptyDayRecord == [morning |-> <<>>, lunch |-> <<>>, dinner |-> <<>>]

ZeroTotals == [kcal |-> Zero, protein |-> Zero, fat |-> Zero, carbs |-> Zero]

\* a NutrientItem: the name, the quantity and the four nutrient strings
\* (each a string or Undefined)
Item(name, qty, kcal, protein, fat, carbs) ==
    [name |-> name, qty |-> qty, kcal |-> kcal, protein |-> protein,
     fat |-> fat, carbs |-> carbs]

\* null in the place of an item (JSON null in the array of the answer): the
\* read of any nutrient of it throws
NullItem ==
    Item(<<"null">>, Undefined, NotAString, NotAString, NotAString, NotAString)

\* numFromUnitString(item[f]) throws for some item of arr and some f of fs
Throws(arr, fs) == \E i \in 1..Len(arr), f \in fs : arr[i][f] = NotAString

-----------------------------------------------------------------------------
(* Totals of the daily records *)

\* the sum of numFromUnitString(item[f]) over the items of one meal, added to
\* the accumulator acc (the innermost forEach)
RECURSIVE AddMeal(_, _, _)
AddMeal(acc, meal, f) ==
    IF meal = <<>> THEN acc
    ELSE AddMeal(Sum(acc, numFromUnitString(Head(meal)[f]), FALSE), Tail(meal), f)

\* the middle forEach: every meal of one meal time
RECURSIVE AddMealTime(_, _, _)
AddMealTime(acc, meals, f) ==
    IF meals = <<>> THEN acc
    ELSE AddMealTime(AddMeal(acc, Head(meals), f), Tail(meals), f)

\* the outer forEach over Object.values(records): the meals of the morning,
\* of lunch and of dinner, in the order of the keys
AddRecords(records, f) ==
    AddMealTime(Zero, records.morning \o records.lunch \o records.dinner, f)

getTotalForDate(records, date) ==
    IF date \notin DOMAIN records THEN ZeroTotals
    ELSE [kcal |-> Number(toFixedSafe(AddRecords(records[date], "kcal"))),
          protein |-> Number(toFixedSafe(AddRecords(records[date], "protein"))),
          fat |-> Number(toFixedSafe(AddRecords(records[date], "fat"))),
          carbs |-> Number(toFixedSafe(AddRecords(records[date], "carbs")))]

-----------------------------------------------------------------------------
(* Scaling of an extracted meal (callGPT, array branch) *)

\* kcalSum, proteinSum, fatSum, carbSum
RawSum(arr, f) == AddMeal(Zero, arr, f)

\* a variant of mealRatiosCalc: the percentage is not divided by 100
mealRatiosCalcPercent(calorieSplit, mealTime) == calorieSplit[mealTime]

mealRatiosCalc(calorieSplit, mealTime) == RDiv(calorieSplit[mealTime], IntNum(100))

\* x || y for numbers: 0 and NaN are falsy, every other number (Infinity
\* included) is truthy
OrElse(x, y) == IF x = Zero \/ x = NaN THEN y ELSE x

\* a variant of scaleBase: kcalSum || 100
scaleBaseHundred(arr) == OrElse(RawSum(arr, "kcal"), IntNum(100))

\* kcalSum || 1
scaleBase(arr) == OrElse(RawSum(arr, "kcal"), IntNum(1))

scaleFactor(arr, calorieSplit, mealTime, goalCalories) ==
    RDiv(RMul(mealRatiosCalc(calorieSplit, mealTime), goalCalories), scaleBase(arr))

KCAL == <<"k", "c", "a", "l">>
GRAM == <<"g">>

ScaleItem(item, factor) ==
    [item EXCEPT
        !.kcal = toFixedSafe(RMul(numFromUnitString(item.kcal), factor)) \o KCAL,
        !.protein = toFixedSafe(RMul(numFromUnitString(item.protein), factor)) \o GRAM,
        !.fat = toFixedSafe(RMul(numFromUnitString(item.fat), factor)) \o GRAM,
        !.carbs = toFixedSafe(RMul(numFromUnitString(item.carbs), factor)) \o GRAM]

\* arr.map((item) => ({ ...item, ... }))
RECURSIVE scaledIngredients(_, _)
scaledIngredients(arr, factor) ==
    IF arr = <<>> THEN <<>>
    ELSE <<ScaleItem(Head(arr), factor)>> \o scaledIngredients(Tail(arr), factor)

\* setTotalCalories / setTotalProtein / setTotalFat / setTotalCarbs
ScaledTotal(arr, f, factor) == Number(toFixedSafe(RMul(RawSum(arr, f), factor)))

-----------------------------------------------------------------------------
(* State *)

VARIABLES
    \* useState of App
    recipeName, inputText, registeredRecipes, editingIndex, editedName,
    editedIngredients, ingredients, totalCalories, totalProtein, totalFat,
    totalCarbs, goalCalories, goalType, calorieSplit, mealTime, pfcGrams,
    dailyRecords, loading,
    \* values of the last render: today = todayISO(), totalToday = useMemo(...)
    today, totalToday,
    \* the fetches awaited by callGPT / registerRecipe, each with the values
    \* its closure captured when the handler was started
    pending,
    \* the environment: the clock (in ticks after 2024-01-01T00:00Z), the
    \* offset of the user's timezone (in ticks), whether the root renders App
    \* inside React.StrictMode (development), which makes React call every
    \* state updater function twice
    now, tzOffset, strictMode,
    \* history: the log of the successful array-shaped extractions, the
    \* number of handlers run so far, and the ingredients list of the recipe
    \* in whose row the edit button was clicked last (NoTarget after a save or
    \* a cancel)
    appendLog, steps, editTarget,
    \* the proxy handler: req are the requests received, in the order of their
    \* arrival, res the response written to each of them (every call of the
    \* handler has its own req and res, and a call that awaits the upstream
    \* API does not keep the next request waiting), apiKey whether
    \* process.env holds OPENAI_API_KEY, requests the number of requests
    \* received, and upstreamCalls the requests (by number) for which the
    \* upstream API was called
    req, res, apiKey, requests, upstreamCalls

appState == <<recipeName, inputText, registeredRecipes, editingIndex, editedName,
              editedIngredients, ingredients, totalCalories, totalProtein,
              totalFat, totalCarbs, goalCalories, goalType, calorieSplit,
              mealTime, pfcGrams, dailyRecords, loading>>
renderState == <<today, totalToday>>
envState == <<now, tzOffset, strictMode>>
histState == <<appendLog, steps, editTarget>>
proxyState == <<req, res, apiKey, requests, upstreamCalls>>
vars == <<appState, renderState, pending, envState, histState, proxyState>>

recipeVars == <<recipeName, registeredRecipes, editingIndex, editedName,
                editedIngredients>>
resultVars == <<ingredients, totalCalories, totalProtein, totalFat, totalCarbs>>
goalVars == <<goalCalories, calorieSplit, mealTime>>

\* the null of editingIndex (number | null): no index of a row
Null == -1

\* no recipe is being edited
NoTarget == <<>>

-----------------------------------------------------------------------------
(* Clock *)

\* ticks per day: a tick is twelve hours
TicksPerDay == 2

DateNames == <<"2023-12-31", "2024-01-01", "2024-01-02", "2024-01-03",
               "2024-01-04", "2024-01-05">>
DateOfDay(day) == DateNames[day + 2]

\* new Date().toISOString().slice(0, 10): the date of the clock in UTC
todayISO(t) == DateOfDay(t \div TicksPerDay)

\* the calendar date of the user's wall clock
LocalDate(t, offset) == DateOfDay((t + offset) \div TicksPerDay)

-----------------------------------------------------------------------------
(* Rendering *)

\* a variant of useMemoTotal: the memo depends on [today] alone
useMemoTotalStale ==
    IF today' # today THEN getTotalForDate(dailyRecords', today') ELSE totalToday

\* useMemo(() => getTotalForDate(today), [dailyRecords, today]): the total is
\* computed anew when one of the dependencies changed since the last render
useMemoTotal ==
    IF dailyRecords' # dailyRecords \/ today' # today
    THEN getTotalForDate(dailyRecords', today')
    ELSE totalToday

\* React renders App again: today is read anew and the memo is looked up
Rerender ==
    /\ today' = todayISO(now)
    /\ totalToday' = useMemoTotal

\* App is mounted as long as no render threw.  The list of the ingredients
\* (ingredients.map, line 672) applies numFromUnitString to the protein, the
\* fat and the carbohydrates of every item.  The list of the registered
\* recipes (registeredRecipes.map, line 454) reads the name of every item
\* of every recipe whose row is not the one being edited (lines 479-481),
\* which throws when the item is null.  A render that throws makes React
\* unmount the whole tree (there is no error boundary), after which no
\* handler can run.
Mounted ==
    /\ ~Throws(ingredients, {"protein", "fat", "carbs"})
    /\ \A k \in 1..Len(registeredRecipes) :
           \/ editingIndex = k - 1
           \/ \A j \in 1..Len(registeredRecipes[k].ingredients) :
                  registeredRecipes[k].ingredients[j] # NullItem

\* A handler that changed some state makes React render App again.  A
\* handler that changed nothing (it set no state, or it set a state to the
\* number, string or boolean it held) renders nothing.  A render that throws
\* shows nothing new.
Render ==
    IF appState' = appState \/ ~Mounted' THEN UNCHANGED renderState ELSE Rerender

-----------------------------------------------------------------------------
(* setDailyRecords((prev) => ...) of callGPT *)

Push(records, dateKey, mt, entry) ==
    [records EXCEPT ![dateKey][mt] = Append(@, entry)]

\* a variant of UpdaterResult: the slot is assigned the new entry alone
\* (updated[dateKey][mealTime] = [entry]) instead of pushed to
UpdaterResultOverwrite(prev, dateKey, mt, entry) ==
    [d \in DOMAIN prev \cup {dateKey} |->
        IF d = dateKey
        THEN [(IF d \in DOMAIN prev THEN prev[d] ELSE EmptyDayRecord)
                 EXCEPT ![mt] = <<entry>>]
        ELSE prev[d]]

\* the value the updater returns: a shallow copy of prev, with the date's
\* record created when absent, and the entry pushed
UpdaterResult(prev, dateKey, mt, entry) ==
    IF dateKey \in DOMAIN prev THEN Push(prev, dateKey, mt, entry)
    ELSE Push([d \in DOMAIN prev \cup {dateKey} |->
                 IF d \in DOMAIN prev THEN prev[d] ELSE EmptyDayRecord],
              dateKey, mt, entry)

\* what the updater leaves in prev itself: the copy is shallow, so a date's
\* record that existed is shared with prev and the push lands in prev too; a
\* record created by the updater is not in prev
UpdaterPrevAfter(prev, dateKey, mt, entry) ==
    IF dateKey \in DOMAIN prev THEN Push(prev, dateKey, mt, entry) ELSE prev

\* React calls the updater once, and twice on the same prev under StrictMode
setDailyRecords(prev, dateKey, mt, entry, strict) ==
    IF strict
    THEN UpdaterResult(UpdaterPrevAfter(prev, dateKey, mt, entry), dateKey, mt, entry)
    ELSE UpdaterResult(prev, dateKey, mt, entry)

-----------------------------------------------------------------------------
(* Inputs of the model *)

Kcal(s) == s \o KCAL
Gram(s) == s \o GRAM

\* the items the extraction returns in the model of the component
ItemChicken ==
    Item(<<"c">>, <<"1">>, Kcal(<<"2", "0", "0">>), Gram(<<"4", "0">>),
         Gram(<<"5">>), Gram(<<"0">>))
ItemRice ==
    Item(<<"r">>, Undefined, Kcal(<<"7">>), Gram(<<"1">>), Undefined, Gram(<<"1">>))
ItemTea ==
    Item(<<"t">>, Undefined, <<"?">>, Gram(<<"1">>), <<>>, Undefined)

\* an item of an answer whose calories are the number 120, not a string
ItemNumber ==
    Item(<<"n">>, Undefined, NotAString, Undefined, Undefined, Undefined)

ArrPool == {<<ItemRice, ItemTea>>}

NameValues == {<<>>, <<"A">>}
TextValues == {<<>>, <<"x">>}

\* what the awaited fetch and the parsing of its answer come to: a failure,
\* or a parsed value of one of the three shapes, with items that can be read
\* (arrs) or that make numFromUnitString throw (a number for the calories,
\* in every shape, and null in the place of an item of a list)
Responses(arrs) ==
    [kind : {"fetchThrows", "noMessage", "notJSON", "other"}, arr : {<<>>}]
        \cup [kind : {"array", "ingredients"},
              arr : arrs \cup {<<ItemNumber>>, <<NullItem>>}]
        \cup [kind : {"object"}, arr : {<<a[1]>> : a \in arrs} \cup {<<ItemNumber>>}]
\* the same for registerRecipe, which keeps an array as it is and reads no
\* item of it
RecipeResponses(arrs) ==
    [kind : {"fetchThrows", "noMessage", "notJSON", "other"}, arr : {<<>>}]
        \cup [kind : {"array"}, arr : arrs \cup {<<ItemNumber>>, <<NullItem>>}]

-----------------------------------------------------------------------------
(* Initial state: the useState initial values and the first render *)

DefaultPfc == [protein |-> IntNum(80), fat |-> IntNum(40), carbs |-> IntNum(150)]

InitAppWith(text, goal, split, mt) ==
    /\ recipeName = <<>>
    /\ inputText = text
    /\ registeredRecipes = <<>>
    /\ editingIndex = Null
    /\ editedName = <<>>
    /\ editedIngredients = <<>>
    /\ ingredients = <<>>
    /\ totalCalories = Zero
    /\ totalProtein = Zero
    /\ totalFat = Zero
    /\ totalCarbs = Zero
    /\ goalCalories = goal
    /\ goalType = "loss"
    /\ calorieSplit = split
    /\ mealTime = mt
    /\ pfcGrams = DefaultPfc
    /\ dailyRecords = <<>>
    /\ loading = FALSE
    /\ pending = <<>>
    /\ now = 0
    /\ today = todayISO(now)
    /\ totalToday = getTotalForDate(dailyRecords, today)
    /\ steps = 0
    /\ appendLog = <<>>
    /\ editTarget = NoTarget

DefaultSplit == [morning |-> IntNum(30), lunch |-> IntNum(40), dinner |-> IntNum(30)]

InitApp == InitAppWith(<<>>, IntNum(1200), DefaultSplit, "morning")

InitProxy ==
    /\ req = <<>>
    /\ res = <<>>
    /\ requests = 0
    /\ upstreamCalls = {}

\* the component in the browser of a user; the proxy is idle and configured
Init ==
    /\ InitApp
    /\ InitProxy
    /\ apiKey = TRUE
    /\ tzOffset = 0
    /\ strictMode \in BOOLEAN

-----------------------------------------------------------------------------
(* Handlers of the form fields.  onChange runs when the text of the field  *)
(* changed.  A field whose state is a string or a number sets it to the    *)
(* new value (setting the value it holds changes nothing); a field whose   *)
(* state is part of an object sets the state to a new object.              *)

unchangedEnv == UNCHANGED <<pending, envState, appendLog, proxyState>>

setRecipeName(v) ==
    /\ v # recipeName
    /\ recipeName' = v
    /\ UNCHANGED <<inputText, registeredRecipes, editingIndex, editedName,
                   editedIngredients, resultVars, goalVars, dailyRecords, loading>>
    /\ unchangedEnv
    /\ UNCHANGED editTarget
    /\ UNCHANGED <<goalType, pfcGrams>>
    /\ Render

setInputText(v) ==
    /\ v # inputText
    /\ inputText' = v
    /\ UNCHANGED <<recipeVars, resultVars, goalVars, dailyRecords, loading>>
    /\ unchangedEnv
    /\ UNCHANGED editTarget
    /\ UNCHANGED <<goalType, pfcGrams>>
    /\ Render

setGoalCalories(v) ==
    /\ v # goalCalories
    /\ goalCalories' = v
    /\ UNCHANGED <<inputText, recipeVars, resultVars, calorieSplit, mealTime,
                   dailyRecords, loading>>
    /\ unchangedEnv
    /\ UNCHANGED editTarget
    /\ UNCHANGED <<goalType, pfcGrams>>
    /\ Render

\* setGoalType(e.target.value) of the select: "loss" is "減量", "keep" is
\* "維持", "gain" is "増量"
setGoalType(v) ==
    /\ v # goalType
    /\ goalType' = v
    /\ UNCHANGED <<inputText, recipeVars, resultVars, goalVars, pfcGrams,
                   dailyRecords, loading>>
    /\ unchangedEnv
    /\ UNCHANGED editTarget
    /\ Render

\* setCalorieSplit({ ...calorieSplit, [field]: v }): the state is set to a
\* new object on every change of the text of the field, also when the text
\* denotes the number held, and a new object always renders
setCalorieSplit(field, v) ==
    /\ calorieSplit' = [calorieSplit EXCEPT ![field] = v]
    /\ UNCHANGED <<inputText, recipeVars, resultVars, goalCalories, mealTime,
                   goalType, pfcGrams, dailyRecords, loading>>
    /\ unchangedEnv
    /\ UNCHANGED editTarget
    /\ Rerender

\* setPfcGrams({ ...pfcGrams, [field]: v }): a new object as well
setPfcGrams(field, v) ==
    /\ pfcGrams' = [pfcGrams EXCEPT ![field] = v]
    /\ UNCHANGED <<inputText, recipeVars, resultVars, goalVars, goalType,
                   dailyRecords, loading>>
    /\ unchangedEnv
    /\ UNCHANGED editTarget
    /\ Rerender

setMealTime(v) ==
    /\ v # mealTime
    /\ mealTime' = v
    /\ UNCHANGED <<inputText, recipeVars, resultVars, goalCalories, calorieSplit,
                   dailyRecords, loading>>
    /\ unchangedEnv
    /\ UNCHANGED editTarget
    /\ UNCHANGED <<goalType, pfcGrams>>
    /\ Render

-----------------------------------------------------------------------------
(* callGPT *)

\* a variant of extractButtonEnabled: the button is never disabled
extractButtonNeverDisabled == TRUE

\* <button onClick={callGPT} disabled={loading}>
extractButtonEnabled == ~loading

\* <button onClick={registerRecipe} disabled={loading}>
registerButtonEnabled == ~loading

\* what a started handler reads after its await: the state of the render in
\* which the button was clicked (the closure), not the state of that moment
callGPTClosure ==
    [op |-> "callGPT", mealTime |-> mealTime, calorieSplit |-> calorieSplit,
     goalCalories |-> goalCalories]

registerRecipeClosure == [op |-> "registerRecipe", recipeName |-> recipeName]

RemoveAt(seq, i) == SubSeq(seq, 1, i - 1) \o SubSeq(seq, i + 1, Len(seq))

\* callGPT up to its await: the check of the input, setLoading(true), fetch
callGPTStart ==
    /\ extractButtonEnabled
    /\ IF inputText = <<>>
       THEN UNCHANGED <<loading, pending>>  \* alert
       ELSE /\ loading' = TRUE
            /\ pending' = Append(pending, callGPTClosure)
    /\ UNCHANGED <<inputText, recipeVars, resultVars, goalVars, dailyRecords>>
    /\ UNCHANGED <<envState, appendLog, proxyState>>
    /\ UNCHANGED editTarget
    /\ UNCHANGED <<goalType, pfcGrams>>
    /\ Render

\* the array branch from setIngredients on: the scaled items are shown with
\* the totals and added to the records of dateKey
callGPTRecord(c, arr, factor, scaled, dateKey) ==
    /\ ingredients' = scaled
    /\ totalCalories' = ScaledTotal(arr, "kcal", factor)
    /\ totalProtein' = ScaledTotal(arr, "protein", factor)
    /\ totalFat' = ScaledTotal(arr, "fat", factor)
    /\ totalCarbs' = ScaledTotal(arr, "carbs", factor)
    /\ dailyRecords' = setDailyRecords(dailyRecords, dateKey, c.mealTime,
                                       scaled, strictMode)
    /\ appendLog' = Append(appendLog,
                           [date |-> dateKey, slot |-> c.mealTime, entry |-> scaled,
                            raw |-> arr, calorieSplit |-> c.calorieSplit,
                            goalCalories |-> c.goalCalories])

\* the array branch once scaleFactor is computed
callGPTScale(c, arr, factor) ==
    callGPTRecord(c, arr, factor, scaledIngredients(arr, factor), todayISO(now))

\* the array branch: scale the items to the meal's share of the goal, show
\* them with their totals and add them to the records of today
callGPTArray(c, arr) ==
    callGPTScale(c, arr, scaleFactor(arr, c.calorieSplit, c.mealTime, c.goalCalories))

\* { ingredients: [...] }: the list is set before the calories are summed,
\* so it stays set when numFromUnitString throws in the sum (alert)
callGPTIngredients(arr) ==
    /\ ingredients' = arr
    /\ totalCalories' = IF Throws(arr, {"kcal"}) THEN totalCalories
                        ELSE RawSum(arr, "kcal")
    /\ UNCHANGED <<totalProtein, totalFat, totalCarbs, dailyRecords, appendLog>>

\* a variant of callGPTObject: the single object is recorded as a meal too
callGPTObjectRecorded(obj) ==
    /\ ingredients' = <<obj>>
    /\ totalCalories' = IF Throws(<<obj>>, {"kcal"}) THEN totalCalories
                        ELSE numFromUnitString(obj.kcal)
    /\ dailyRecords' = setDailyRecords(dailyRecords, todayISO(now), mealTime,
                                       <<obj>>, strictMode)
    /\ UNCHANGED <<totalProtein, totalFat, totalCarbs, appendLog>>

\* a single object: the list is set before the calories are read, so it
\* stays set when numFromUnitString throws on them (alert)
callGPTObject(obj) ==
    /\ ingredients' = <<obj>>
    /\ totalCalories' = IF Throws(<<obj>>, {"kcal"}) THEN totalCalories
                        ELSE numFromUnitString(obj.kcal)
    /\ UNCHANGED <<totalProtein, totalFat, totalCarbs, dailyRecords, appendLog>>

\* the alerts of callGPT that come before any state is set: no message, the
\* catch of JSON.parse, the catch of a throw in the array branch (lines
\* 271-300), anything that is not an object, the catch of fetch
callGPTAlert ==
    UNCHANGED <<resultVars, dailyRecords, appendLog>>

\* callGPT after its await, for the i-th fetch in flight answering r
callGPTResolve(i, r) ==
    /\ i \in 1..Len(pending)
    /\ pending[i].op = "callGPT"
    /\ CASE r.kind = "array"
                /\ ~Throws(r.arr, {"kcal", "protein", "fat", "carbs"}) ->
                    callGPTArray(pending[i], r.arr)
         [] r.kind = "ingredients" -> callGPTIngredients(r.arr)
         [] r.kind = "object" -> callGPTObject(r.arr[1])
         [] OTHER -> callGPTAlert
    /\ loading' = FALSE
    /\ pending' = RemoveAt(pending, i)
    /\ UNCHANGED <<inputText, recipeVars, goalVars>>
    /\ UNCHANGED <<envState, proxyState>>
    /\ UNCHANGED editTarget
    /\ UNCHANGED <<goalType, pfcGrams>>
    /\ Render

-----------------------------------------------------------------------------
(* Registered recipes *)

registerRecipeStart ==
    /\ registerButtonEnabled
    /\ IF recipeName = <<>> \/ inputText = <<>>
       THEN UNCHANGED <<loading, pending>>  \* alert
       ELSE /\ loading' = TRUE
            /\ pending' = Append(pending, registerRecipeClosure)
    /\ UNCHANGED <<inputText, recipeVars, resultVars, goalVars, dailyRecords>>
    /\ UNCHANGED <<envState, appendLog, proxyState>>
    /\ UNCHANGED editTarget
    /\ UNCHANGED <<goalType, pfcGrams>>
    /\ Render

registerRecipeResolve(i, r) ==
    /\ i \in 1..Len(pending)
    /\ pending[i].op = "registerRecipe"
    /\ IF r.kind = "array"
       THEN /\ registeredRecipes' =
                  Append(registeredRecipes,
                         [name |-> pending[i].recipeName, ingredients |-> r.arr])
       ELSE UNCHANGED registeredRecipes  \* alert
    /\ loading' = FALSE
    /\ pending' = RemoveAt(pending, i)
    /\ UNCHANGED <<recipeName, editingIndex, editedName, editedIngredients,
                   inputText, resultVars, goalVars, dailyRecords>>
    /\ UNCHANGED <<envState, appendLog, proxyState>>
    /\ UNCHANGED editTarget
    /\ UNCHANGED <<goalType, pfcGrams>>
    /\ Render

\* `${ing.name}${ing.qty ? ` ${ing.qty}` : ""}` joined by the separator
IngredientText(ing) ==
    ing.name \o (IF ing.qty = Undefined \/ ing.qty = <<>> THEN <<>>
                 ELSE <<" ">> \o ing.qty)

RECURSIVE JoinIngredients(_)
JoinIngredients(ings) ==
    IF ings = <<>> THEN <<>>
    ELSE IF Len(ings) = 1 THEN IngredientText(ings[1])
    ELSE IngredientText(ings[1]) \o <<",">> \o JoinIngredients(Tail(ings))

\* the indices are those of the code (from 0)
RecipeAt(index) == registeredRecipes[index + 1]
RowIndices == 0..(Len(registeredRecipes) - 1)

\* the edit and delete buttons are rendered in the rows that are not edited
startEditRecipe(index) ==
    /\ index \in RowIndices
    /\ editingIndex # index
    /\ editingIndex' = index
    /\ editedName' = RecipeAt(index).name
    /\ editedIngredients' = JoinIngredients(RecipeAt(index).ingredients)
    /\ UNCHANGED <<recipeName, registeredRecipes, inputText, resultVars, goalVars,
                   dailyRecords, loading>>
    /\ editTarget' = RecipeAt(index).ingredients
    /\ unchangedEnv
    /\ UNCHANGED <<goalType, pfcGrams>>
    /\ Render

\* the save and cancel buttons and the two edit fields are rendered in the
\* row whose index is editingIndex
EditRowShown == editingIndex # Null /\ editingIndex \in RowIndices

setEditedName(v) ==
    /\ EditRowShown
    /\ v # editedName
    /\ editedName' = v
    /\ UNCHANGED <<recipeName, registeredRecipes, editingIndex, editedIngredients,
                   inputText, resultVars, goalVars, dailyRecords, loading>>
    /\ unchangedEnv
    /\ UNCHANGED editTarget
    /\ UNCHANGED <<goalType, pfcGrams>>
    /\ Render

setEditedIngredients(v) ==
    /\ EditRowShown
    /\ v # editedIngredients
    /\ editedIngredients' = v
    /\ UNCHANGED <<recipeName, registeredRecipes, editingIndex, editedName,
                   inputText, resultVars, goalVars, dailyRecords, loading>>
    /\ unchangedEnv
    /\ UNCHANGED editTarget
    /\ UNCHANGED <<goalType, pfcGrams>>
    /\ Render

saveEditedRecipe ==
    /\ EditRowShown
    /\ IF editedName = <<>> \/ editedIngredients = <<>>
       THEN UNCHANGED <<registeredRecipes, editingIndex, editTarget>>  \* alert
       ELSE /\ registeredRecipes' =
                  [registeredRecipes EXCEPT ![editingIndex + 1].name = editedName]
            /\ editingIndex' = Null
            /\ editTarget' = NoTarget
    /\ UNCHANGED <<recipeName, editedName, editedIngredients, inputText, resultVars,
                   goalVars, dailyRecords, loading>>
    /\ UNCHANGED <<pending, envState, appendLog, proxyState>>
    /\ UNCHANGED <<goalType, pfcGrams>>
    /\ Render

cancelEdit ==
    /\ EditRowShown
    /\ editingIndex' = Null
    /\ UNCHANGED <<recipeName, registeredRecipes, editedName, editedIngredients,
                   inputText, resultVars, goalVars, dailyRecords, loading>>
    /\ editTarget' = NoTarget
    /\ unchangedEnv
    /\ UNCHANGED <<goalType, pfcGrams>>
    /\ Render

deleteRecipe(index) ==
    /\ index \in RowIndices
    /\ editingIndex # index
    /\ registeredRecipes' = RemoveAt(registeredRecipes, index + 1)
    /\ UNCHANGED <<recipeName, editingIndex, editedName, editedIngredients,
                   inputText, resultVars, goalVars, dailyRecords, loading>>
    /\ unchangedEnv
    /\ UNCHANGED editTarget
    /\ UNCHANGED <<goalType, pfcGrams>>
    /\ Render

-----------------------------------------------------------------------------
(* The clock *)

Tick ==
    /\ now < MaxClock
    /\ now' = now + 1
    /\ UNCHANGED <<appState, renderState, pending, tzOffset, strictMode,
                   appendLog, editTarget, proxyState>>

-----------------------------------------------------------------------------
(* The component *)

\* one more step; a handler runs when App is mounted
Step ==
    /\ steps < MaxSteps
    /\ steps' = steps + 1

Next ==
    \/ Mounted /\ Step /\ \E v \in NameValues : setRecipeName(v)
    \/ Mounted /\ Step /\ \E v \in TextValues : setInputText(v)
    \/ Mounted /\ Step /\ \E v \in {IntNum(1200), IntNum(1000)} : setGoalCalories(v)
    \/ Mounted /\ Step /\ \E f \in MealTimeSet, v \in {IntNum(30)} : setCalorieSplit(f, v)
    \/ Mounted /\ Step /\ \E v \in MealTimeSet : setMealTime(v)
    \/ Mounted /\ Step /\ \E v \in {"loss", "keep", "gain"} : setGoalType(v)
    \/ Mounted /\ Step /\ \E f \in DOMAIN DefaultPfc, v \in {IntNum(80)} : setPfcGrams(f, v)
    \/ Mounted /\ Step /\ callGPTStart
    \/ Mounted /\ Step /\ \E i \in 1..Len(pending), r \in Responses(ArrPool) : callGPTResolve(i, r)
    \/ Mounted /\ Step /\ registerRecipeStart
    \/ Mounted /\ Step /\ \E i \in 1..Len(pending), r \in RecipeResponses(ArrPool) : registerRecipeResolve(i, r)
    \/ Mounted /\ Step /\ \E i \in RowIndices : startEditRecipe(i)
    \/ Mounted /\ Step /\ \E v \in NameValues : setEditedName(v)
    \/ Mounted /\ Step /\ \E v \in TextValues : setEditedIngredients(v)
    \/ Mounted /\ Step /\ saveEditedRecipe
    \/ Mounted /\ Step /\ cancelEdit
    \/ Mounted /\ Step /\ \E i \in RowIndices : deleteRecipe(i)
    \/ Step /\ Tick

Spec == Init /\ [][Next]_vars

-----------------------------------------------------------------------------
(* Scaling alone: one extraction, for every item list and every budget of  *)
(* the sets below.  The state it starts from is one the form fields lead   *)
(* to: some text typed, a goal, a share of the morning and a meal time set. *)
(* The largest goal comes with the one share and the one item list that     *)
(* make kcalSum * scaleFactor overflow.                                     *)

ScaleItems ==
    {ItemChicken, ItemRice, ItemTea,
     Item(<<"s">>, Undefined, Kcal(<<"-", "7">>), Gram(<<"0", ".", "5">>),
          Gram(<<"2">>), Undefined),
     Item(<<"w">>, Undefined, Kcal(<<"0">>), Undefined, Undefined, Undefined)}

\* goals and shares of the morning, the initial ones first; the last goals
\* are what the goal field gives, by Number(e.target.value), for the text
\* "1e22" and for the largest double, 1.7976931348623157e308
\* (Number.MAX_VALUE, (2^53 - 1) * 2^971)
ScaleGoals ==
    <<IntNum(1200), IntNum(1000), IntNum(1001), IntNum(0),
      Number(<<"1", "e", "2", "2">>),
      <<1, <<Base - 1, Base - 1, Base - 1, 2047>>, 971>>>>
ScalePcts == <<IntNum(30), IntNum(33), IntNum(0), IntNum(-10)>>

\* the arrays that answer an extraction under the goal g: every list of up
\* to MaxItems items of ScaleItems, and the lists of one and of two items
\* whose calories have HugeLen digits 9, which numFromUnitString reads as
\* Infinity and -Infinity (kcalSum Infinity, and NaN for the two); under the
\* largest goal, the one item of 3 kcal, whose scaled calories overflow
ScaleArrs(g) ==
    IF g = ScaleGoals[Len(ScaleGoals)]
    THEN {<<Item(<<"k">>, Undefined, Kcal(<<"3">>), Undefined, Undefined, Undefined)>>}
    ELSE LET huge == [i \in 1..HugeLen |-> "9"]
             plus == Item(<<"i">>, Undefined, Kcal(huge), Gram(<<"1">>),
                          Undefined, Undefined)
             minus == Item(<<"j">>, Undefined, Kcal(<<"-">> \o huge), Gram(<<"1">>),
                           Undefined, Undefined)
         IN  UNION {[1..n -> ScaleItems] : n \in 0..MaxItems}
                 \cup {<<plus>>, <<plus, minus>>}

\* every goal but the largest with every share and the slots morning and
\* lunch; the largest goal with the share 100 for the morning
ScaleInit ==
    /\ \/ \E g \in 1..(Len(ScaleGoals) - 1), p \in 1..Len(ScalePcts), m \in 1..2 :
             InitAppWith(<<"x">>, ScaleGoals[g],
                         [DefaultSplit EXCEPT !.morning = ScalePcts[p]], MealTimes[m])
       \/ InitAppWith(<<"x">>, ScaleGoals[Len(ScaleGoals)],
                      [DefaultSplit EXCEPT !.morning = IntNum(100)], "morning")
    /\ InitProxy
    /\ apiKey = TRUE
    /\ tzOffset = 0
    /\ strictMode \in BOOLEAN

ScaleNext ==
    \/ Mounted /\ Step /\ appendLog = <<>> /\ callGPTStart
    \/ Mounted /\ Step /\ \E r \in [kind : {"array"}, arr : ScaleArrs(goalCalories)] : callGPTResolve(1, r)

SpecScale == ScaleInit /\ [][ScaleNext]_vars

-----------------------------------------------------------------------------
(* The unit parser alone: one extraction answers with a single object, whose *)
(* calories string is any string of ParseStrings or is absent; callGPT shows *)
(* numFromUnitString of it as the total calories.                            *)

\* a digit, another digit, the decimal point, the minus sign and a character
\* that the regular expression deletes
ParseStrings == UNION {[1..n -> {"1", "2", ".", "-", "g"}] : n \in 0..MaxLen}

ParseObjects ==
    {Item(<<"p">>, Undefined, k, Undefined, Undefined, Undefined) :
        k \in ParseStrings \cup {Undefined}}

ParseInit ==
    /\ InitAppWith(<<"x">>, IntNum(1200), DefaultSplit, "morning")
    /\ InitProxy
    /\ apiKey = TRUE
    /\ tzOffset = 0
    /\ strictMode = FALSE

ParseNext ==
    \/ Mounted /\ Step /\ ingredients = <<>> /\ callGPTStart
    \/ Mounted /\ Step /\ \E o \in ParseObjects :
                  callGPTResolve(1, [kind |-> "object", arr |-> <<o>>])

SpecParse == ParseInit /\ [][ParseNext]_vars

-----------------------------------------------------------------------------
(* The date of today: the component in browsers of several time zones.  The *)
(* offset of the zone is local time minus UTC, in ticks of the clock.       *)

DateInit ==
    /\ InitAppWith(<<"x">>, IntNum(1200), DefaultSplit, "morning")
    /\ InitProxy
    /\ apiKey = TRUE
    /\ tzOffset \in {0 - 1, 0, 1}
    /\ strictMode = FALSE

DateNext ==
    \/ Step /\ Tick
    \/ Mounted /\ Step /\ \E v \in MealTimeSet : setMealTime(v)
    \/ Mounted /\ Step /\ callGPTStart
    \/ Mounted /\ Step /\ \E r \in [kind : {"array"}, arr : ArrPool] : callGPTResolve(1, r)

SpecDate == DateInit /\ [][DateNext]_vars

-----------------------------------------------------------------------------
(* The list of registered recipes alone: three recipes were registered, A   *)
(* with the chicken, B with rice and tea, C with the tea; the rows are then *)
(* edited, saved, cancelled and deleted in any order.  No two recipes have  *)
(* the same ingredients list, and no handler of these changes one, so the   *)
(* ingredients list tells which recipe an element of the list is.           *)

RecipesRegistered ==
    <<[name |-> <<"A">>, ingredients |-> <<ItemChicken>>],
      [name |-> <<"B">>, ingredients |-> <<ItemRice, ItemTea>>],
      [name |-> <<"C">>, ingredients |-> <<ItemTea>>]>>

RecipesInit ==
    /\ recipeName = <<"C">>
    /\ inputText = <<"x">>
    /\ registeredRecipes = RecipesRegistered
    /\ editingIndex = Null
    /\ editedName = <<>>
    /\ editedIngredients = <<>>
    /\ ingredients = <<>>
    /\ totalCalories = Zero
    /\ totalProtein = Zero
    /\ totalFat = Zero
    /\ totalCarbs = Zero
    /\ goalCalories = IntNum(1200)
    /\ goalType = "loss"
    /\ calorieSplit = DefaultSplit
    /\ mealTime = "morning"
    /\ pfcGrams = DefaultPfc
    /\ dailyRecords = <<>>
    /\ loading = FALSE
    /\ pending = <<>>
    /\ now = 0
    /\ today = todayISO(now)
    /\ totalToday = getTotalForDate(dailyRecords, today)
    /\ steps = 0
    /\ appendLog = <<>>
    /\ editTarget = NoTarget
    /\ InitProxy
    /\ apiKey = TRUE
    /\ tzOffset = 0
    /\ strictMode = FALSE

RecipesNext ==
    \/ Mounted /\ Step /\ \E i \in RowIndices : startEditRecipe(i)
    \/ Mounted /\ Step /\ \E v \in NameValues : setEditedName(v)
    \/ Mounted /\ Step /\ \E v \in TextValues : setEditedIngredients(v)
    \/ Mounted /\ Step /\ saveEditedRecipe
    \/ Mounted /\ Step /\ cancelEdit
    \/ Mounted /\ Step /\ \E i \in RowIndices : deleteRecipe(i)

SpecRecipes == RecipesInit /\ [][RecipesNext]_vars

-----------------------------------------------------------------------------
(* The proxy: handler(req, res) of api/chat.ts *)

\* req.body: undefined, or an object with or without a prompt
Bodies ==
    {[defined |-> FALSE, prompt |-> Undefined]}
        \cup [defined : {TRUE}, prompt : {Undefined, <<>>, <<"h", "i">>}]

Requests == [method : {"GET", "POST", "OPTIONS", "PUT"}, body : Bodies]

\* const { prompt } = req.body ?? {}
PromptOf(body) == IF body.defined THEN body.prompt ELSE Undefined

Response(status, body) == [status |-> status, body |-> body, cors |-> TRUE]

\* a variant of handlerAnswer: the prompt is not checked
handlerAnswerPromptUnchecked(r, key) ==
    IF r.method = "OPTIONS" THEN Response(200, "end")
    ELSE IF r.method # "POST" THEN Response(405, "Method not allowed")
    ELSE IF ~key THEN Response(500, "Server misconfig: OPENAI_API_KEY missing")
    ELSE Response(0, "awaiting")

\* what the handler answers before it calls the upstream API; the body
\* "awaiting" (status 0) stands for no answer yet: the upstream API is called
handlerAnswer(r, key) ==
    IF r.method = "OPTIONS" THEN Response(200, "end")
    ELSE IF r.method # "POST" THEN Response(405, "Method not allowed")
    ELSE IF PromptOf(r.body) = Undefined \/ PromptOf(r.body) = <<>>
         THEN Response(400, "Missing prompt")
    ELSE IF ~key THEN Response(500, "Server misconfig: OPENAI_API_KEY missing")
    ELSE Response(0, "awaiting")

\* the handler up to its await of fetch, for a request that arrives at any
\* time, also while earlier requests await the upstream API
handlerReceive(r) ==
    /\ requests < MaxRequests
    /\ req' = Append(req, r)
    /\ requests' = requests + 1
    /\ res' = Append(res, handlerAnswer(r, apiKey))
    /\ upstreamCalls' = IF handlerAnswer(r, apiKey).body = "awaiting"
                        THEN upstreamCalls \cup {requests + 1} ELSE upstreamCalls
    /\ UNCHANGED <<appState, renderState, pending, envState, histState, apiKey>>

\* what the upstream API answers, or fetch / upstream.json() throwing
UpstreamAnswers ==
    [throws : {FALSE}, status : {200, 401, 429, 500}, data : {"completion", "error"}]
        \cup {[throws |-> TRUE, status |-> 0, data |-> "none"]}

\* the handler of request i after its await: the status and the body of the
\* upstream API as they are, or 500 from the catch; the answers to several
\* requests in flight arrive in any order
handlerUpstream(i, u) ==
    /\ i \in 1..requests
    /\ res[i].body = "awaiting"
    /\ res' = [res EXCEPT ![i] = IF u.throws THEN Response(500, "Server error")
                                 ELSE Response(u.status, u.data)]
    /\ UNCHANGED <<req, apiKey, requests, upstreamCalls>>
    /\ UNCHANGED <<appState, renderState, pending, envState, histState>>

ProxyInit ==
    /\ InitApp
    /\ InitProxy
    /\ apiKey \in BOOLEAN
    /\ tzOffset = 0
    /\ strictMode = FALSE

ProxyNext ==
    \/ \E r \in Requests : handlerReceive(r)
    \/ \E i \in 1..requests, u \in UpstreamAnswers : handlerUpstream(i, u)

SpecProxy == ProxyInit /\ [][ProxyNext]_vars

-----------------------------------------------------------------------------
(* Properties: helpers *)

RNeg(a) == <<0 - a[1], a[2], a[3]>>
RAbs(a) == <<a[1] * a[1], a[2], a[3]>>

\* -1, 0, 1 as |a| < |b|, |a| = |b|, |a| > |b| for finite a and b
CmpAbs(a, b) ==
    IF a = Zero \/ b = Zero THEN (IF a = b THEN 0 ELSE IF a = Zero THEN 0 - 1 ELSE 1)
    ELSE IF BBitLen(a[2]) + a[3] # BBitLen(b[2]) + b[3]
    THEN (IF BBitLen(a[2]) + a[3] < BBitLen(b[2]) + b[3] THEN 0 - 1 ELSE 1)
    ELSE BCmp(BShl(a[2], a[3] - Min(a[3], b[3])), BShl(b[2], b[3] - Min(a[3], b[3])))

\* a <= b for finite a and b
RLeq(a, b) ==
    IF a[1] # b[1] THEN a[1] < b[1]
    ELSE IF a[1] = 0 THEN TRUE
    ELSE IF a[1] = 1 THEN CmpAbs(a, b) <= 0
    ELSE CmpAbs(a, b) >= 0

IsPrefix(a, b) == Len(a) <= Len(b) /\ SubSeq(b, 1, Len(a)) = a

\* the entries of (date, slot), none when the date has no record
SlotOf(records, d, m) == IF d \in DOMAIN records THEN records[d][m] ELSE <<>>

\* the number of the decimal with one fractional digit nearest to x, a tie
\* away from zero
Round1(x) == Number(toFixed(x))

\* the places <<slot, entry, item>> of the items recorded for a date
ItemPlaces(records, d) ==
    UNION {UNION {{<<m, i, j>> : j \in 1..Len(records[d][m][i])} :
                     i \in 1..Len(records[d][m])} : m \in MealTimeSet}

RECURSIVE SumPlaces(_, _, _)
SumPlaces(P, rec, f) ==
    IF P = {} THEN Zero
    ELSE LET t == CHOOSE t \in P : TRUE
         IN  Sum(numFromUnitString(rec[t[1]][t[2]][t[3]][f]),
                 SumPlaces(P \ {t}, rec, f), TRUE)

\* the aggregate over all items of all entries of all slots of a date
Aggregate(records, d) ==
    IF d \notin DOMAIN records THEN ZeroTotals
    ELSE [f \in {"kcal", "protein", "fat", "carbs"} |->
             Round1(SumPlaces(ItemPlaces(records, d), records[d], f))]

AllDates == {DateNames[i] : i \in 1..Len(DateNames)}

LastAppend == appendLog[Len(appendLog)]

\* the state shows the result of the last logged extraction
ShowsLastAppend == appendLog # <<>> /\ ingredients = LastAppend.entry

Times(n, t) == [f \in DOMAIN t |-> RMul(IntNum(n), t[f])]

\* the totals as the page shows them: toFixedSafe(total, 1)
Shown(t) == [f \in DOMAIN t |-> toFixedSafe(t[f])]

\* a * b, exactly (not rounded to a double)
XMul(a, b) ==
    IF a = Zero \/ b = Zero THEN Zero
    ELSE Canon(a[1] * b[1], BNorm(BMulAt(a[2], b[2], 1)), a[3] + b[3])

\* |100 * a - y|, exactly
Gap100(a, y) == RAbs(Sum(XMul(IntNum(100), a), RNeg(y), TRUE))

\* 100 times the budget of an extraction, exactly: the share of its slot, in
\* percent, times the goal
Budget100(e) == XMul(e.calorieSplit[e.slot], e.goalCalories)

\* a is y / 100 to the precision of the doubles: |a - y / 100| is at most
\* 0.1 + |y / 100| * 2^-50, and at most 0.1 when |y / 100| is at most a
\* million
Near(a, y) ==
    /\ RLeq(Gap100(a, y),
            Sum(IntNum(10), XMul(RAbs(y), <<1, <<1>>, 0 - 50>>), TRUE))
    /\ RLeq(RAbs(y), IntNum(100000000)) => RLeq(Gap100(a, y), IntNum(10))

ReportedTotals ==
    [kcal |-> totalCalories, protein |-> totalProtein, fat |-> totalFat,
     carbs |-> totalCarbs]

-----------------------------------------------------------------------------
(* Properties *)

\* C1: no step removes, reorders, merges or rewrites an entry of the daily
\* records: every date stays, every (date, slot) sequence of before is a
\* prefix of the one after; and a step changes the records only when it is a
\* successful array-shaped extraction of callGPT (one more logged append).
C1_LedgerAppendOnly ==
    [][/\ \A d \in DOMAIN dailyRecords :
             /\ d \in DOMAIN dailyRecords'
             /\ \A m \in MealTimeSet : IsPrefix(dailyRecords[d][m], dailyRecords'[d][m])
       /\ dailyRecords' # dailyRecords =>
             /\ Len(appendLog') = Len(appendLog) + 1
             /\ \E i \in 1..Len(pending) : pending[i].op = "callGPT"]_vars

\* C1 witness: two extractions were appended, then the goal was changed, and
\* both entries are where they were appended
C1_Witness ==
    /\ Len(appendLog) = 2
    /\ goalCalories # IntNum(1200)
    /\ appendLog[1].date = appendLog[2].date /\ appendLog[1].slot = appendLog[2].slot
    /\ dailyRecords[appendLog[1].date][appendLog[1].slot][1] = appendLog[1].entry

\* C2: a successful array-shaped extraction performs exactly one append: the
\* date key is there afterwards, the sequence of (date, slot of the
\* extraction) is the one of before with the scaled items as one new last
\* element, and the other slots and dates are as before.
C2_ExactlyOneAppend ==
    [][Len(appendLog') = Len(appendLog) + 1 =>
          LET e == appendLog'[Len(appendLog')]
          IN  /\ DOMAIN dailyRecords' = DOMAIN dailyRecords \cup {e.date}
              /\ dailyRecords'[e.date][e.slot] =
                     Append(SlotOf(dailyRecords, e.date, e.slot), e.entry)
              /\ \A d \in DOMAIN dailyRecords', m \in MealTimeSet :
                     <<d, m>> # <<e.date, e.slot>> =>
                         dailyRecords'[d][m] = SlotOf(dailyRecords, d, m)]_vars

\* C3: the total of every date, and the memoized total shown for today, is
\* the aggregate over all items of all entries of the three slots recorded
\* now for that date, and all zero for a date without a record.
C3_TotalsAreCurrent ==
    /\ totalToday = Aggregate(dailyRecords, today)
    /\ \A d \in AllDates : getTotalForDate(dailyRecords, d) = Aggregate(dailyRecords, d)
    /\ \A d \in AllDates \ DOMAIN dailyRecords :
           getTotalForDate(dailyRecords, d) = ZeroTotals

\* C3 witness: entries on an earlier date and on today, today's total shown
C3_Witness ==
    /\ today \in DOMAIN dailyRecords
    /\ \E d \in DOMAIN dailyRecords : d # today
    /\ totalToday.kcal # Zero

\* C4: n extractions that append the same entry to the same (date, slot) of
\* a date that was empty give a total of n times the total of one append (as
\* the page shows the totals, with one decimal).
C4_TotalIsLinear ==
    (/\ appendLog # <<>>
     /\ \A i \in 1..Len(appendLog) :
            /\ appendLog[i].date = appendLog[1].date
            /\ appendLog[i].slot = appendLog[1].slot
            /\ appendLog[i].entry = appendLog[1].entry)
    => Shown(getTotalForDate(dailyRecords, appendLog[1].date)) =
           Shown(Times(Len(appendLog),
                       Aggregate([d \in {appendLog[1].date} |->
                                    [EmptyDayRecord EXCEPT ![appendLog[1].slot] =
                                                               <<appendLog[1].entry>>]],
                                 appendLog[1].date)))

\* C5 as claimed: when the raw kcal sum of the items is not zero, the kcal
\* total that the scaling reports is the budget (share of the slot / 100 *
\* goal) within 0.1 kcal.
C5_KcalTotalIsBudget ==
    (ShowsLastAppend /\ RawSum(LastAppend.raw, "kcal") # Zero) =>
        RLeq(Gap100(totalCalories, Budget100(LastAppend)), IntNum(10))

\* C5 amended: when the raw kcal sum of the items is not zero and the double
\* kcalSum * scaleFactor that the code formats is finite, the kcal total
\* that the scaling reports is the budget within 0.1 kcal plus the budget's
\* magnitude times 2^-50 (the roundings of the double arithmetic), and
\* within 0.1 kcal for every budget of a magnitude up to a million kcal;
\* when that double is not finite (overflow), the reported total is 0.
C5_KcalTotalIsBudgetInDoubles ==
    (ShowsLastAppend /\ RawSum(LastAppend.raw, "kcal") # Zero) =>
        IF IsFinite(RMul(RawSum(LastAppend.raw, "kcal"),
                         scaleFactor(LastAppend.raw, LastAppend.calorieSplit,
                                     LastAppend.slot, LastAppend.goalCalories)))
        THEN Near(totalCalories, Budget100(LastAppend))
        ELSE totalCalories = Zero

\* C5 witness: two items with a raw kcal sum that is not zero, scaled to a
\* budget that is not a multiple of 0.1
C5_Witness ==
    /\ ShowsLastAppend
    /\ Len(LastAppend.raw) = 2
    /\ RawSum(LastAppend.raw, "kcal") # Zero
    /\ Gap100(totalCalories, Budget100(LastAppend)) # Zero
    /\ totalCalories # Zero

\* C6 as claimed: when the raw kcal sum is zero, the four reported totals are
\* zero.
C6_AllTotalsZero ==
    (ShowsLastAppend /\ RawSum(LastAppend.raw, "kcal") = Zero) =>
        ReportedTotals = ZeroTotals

\* C6 amended: when the raw kcal sum is zero, the reported kcal total is zero
\* and the reported protein, fat and carbohydrate totals are the raw sums
\* times the budget as toFixedSafe writes them: within 0.1 of the product
\* when its magnitude is at most a million, and within 0.1 plus the
\* product's magnitude times 2^-50 for every product.
C6_ZeroKcalScalesByBudget ==
    (ShowsLastAppend /\ RawSum(LastAppend.raw, "kcal") = Zero) =>
        /\ totalCalories = Zero
        /\ \A f \in {"protein", "fat", "carbs"} :
               Near(ReportedTotals[f],
                    XMul(RawSum(LastAppend.raw, f), Budget100(LastAppend)))

\* C6 witness: no parseable calories, some protein, a budget that is not zero
C6_Witness ==
    /\ ShowsLastAppend
    /\ RawSum(LastAppend.raw, "kcal") = Zero
    /\ RawSum(LastAppend.raw, "protein") # Zero
    /\ Budget100(LastAppend) # Zero
    /\ totalProtein # Zero

\* C7: the four reported totals are the sums over the one-decimal strings of
\* the scaled items, so the total of the date after one append to an empty
\* date equals the reported totals.
C7_ReportedTotalsAreLedgerTotals ==
    (ShowsLastAppend /\ Len(appendLog) = 1) =>
        getTotalForDate(dailyRecords, LastAppend.date) = ReportedTotals

\* C8: at most one extraction (callGPT or registerRecipe) is in flight.
C8_OneInFlight == Len(pending) <= 1

\* C8 witness: after a finished extraction, the next one is in flight and
\* the buttons are disabled
C8_Witness == Len(pending) = 1 /\ loading /\ appendLog # <<>>

\* C9: a step in which an attempt of callGPT ends without an array (no
\* message, no JSON, a throw, or a parsed value that is not an array) leaves
\* the daily records as they were.
C9_FailedAttemptKeepsLedger ==
    [][(\E i \in 1..Len(pending) : \E r \in Responses(ArrPool) :
            r.kind # "array" /\ callGPTResolve(i, r))
       => dailyRecords' = dailyRecords]_vars

\* C9 witness: after an append, an answer that was an object and not an
\* array is shown (unscaled), and the records hold what was appended
C9_Witness ==
    /\ appendLog # <<>>
    /\ ingredients = <<ItemRice>>
    /\ pending = <<>>
    /\ dailyRecords[appendLog[1].date][appendLog[1].slot][1] = appendLog[1].entry

\* request i was answered by the handler itself, without the upstream
Rejected(i, status) ==
    /\ res[i].status = status
    /\ i \notin upstreamCalls

\* C10 as claimed: a method that is not POST gets 405; a POST without prompt
\* gets 400; a POST with a prompt and no credential gets 500; no upstream call
\* in the last two cases.
C10_ProxyRejections ==
    \A i \in 1..requests :
        /\ req[i].method # "POST" => res[i].status = 405
        /\ (req[i].method = "POST" /\ PromptOf(req[i].body) \in {Undefined, <<>>})
               => Rejected(i, 400)
        /\ (/\ req[i].method = "POST"
            /\ PromptOf(req[i].body) \notin {Undefined, <<>>}
            /\ ~apiKey)
               => Rejected(i, 500)

\* C10 amended: a method that is neither POST nor OPTIONS gets 405 (OPTIONS
\* gets 200); a POST without prompt gets 400; a POST with a prompt and no
\* credential gets 500; no upstream call in the last two cases.
C10_ProxyRejectionsButOptions ==
    \A i \in 1..requests :
        /\ req[i].method \notin {"POST", "OPTIONS"} => res[i].status = 405
        /\ req[i].method = "OPTIONS" => res[i].status = 200
        /\ (req[i].method = "POST" /\ PromptOf(req[i].body) \in {Undefined, <<>>})
               => Rejected(i, 400)
        /\ (/\ req[i].method = "POST"
            /\ PromptOf(req[i].body) \notin {Undefined, <<>>}
            /\ ~apiKey)
               => Rejected(i, 500)

\* C10 witness: a POST without a prompt was rejected with 400 while an
\* earlier request was still awaiting the upstream API
C10_Witness ==
    /\ requests = 2
    /\ req[2].method = "POST" /\ PromptOf(req[2].body) = <<>>
    /\ res[2].status = 400
    /\ res[1].body = "awaiting"
    /\ upstreamCalls = {1}

\* the position of the first digit of s, 0 when s has no digit
FirstDigitPos(s) ==
    IF \E i \in 1..Len(s) : IsDigit(s[i])
    THEN CHOOSE i \in 1..Len(s) : IsDigit(s[i]) /\ \A j \in 1..(i - 1) : ~IsDigit(s[j])
    ELSE 0

IsNumericChar(c) == IsDigit(c) \/ c = "." \/ c = "-"

\* the first numeric token of s: the longest substring of digits, "." and "-"
\* with no other character in between that holds the first digit of s
FirstToken(s) ==
    LET p == FirstDigitPos(s)
        from == CHOOSE a \in 1..p :
                    /\ \A k \in a..p : IsNumericChar(s[k])
                    /\ a > 1 => ~IsNumericChar(s[a - 1])
        to == CHOOSE b \in p..Len(s) :
                    /\ \A k \in p..b : IsNumericChar(s[k])
                    /\ b < Len(s) => ~IsNumericChar(s[b + 1])
    IN  SubSeq(s, from, to)

\* the number the first numeric token of v denotes read as a decimal literal
\* (sign, digits, point, digits); 0 for an absent, empty or digit-free v and
\* for a token that is no literal
FirstRunValue(v) ==
    IF v = Undefined \/ FirstDigitPos(v) = 0 THEN Zero
    ELSE LET n == parseFloat(FirstToken(v))
         IN  IF n = NaN THEN Zero ELSE n

\* C11: numFromUnitString returns the number of the first run of digits of
\* its input (with the minus sign and the decimal point that belong to the
\* run) and ignores every later run; 0 for absent, empty and digit-free
\* input.  Stated on the single object an extraction showed: its total
\* calories are numFromUnitString of the object's calories string.
C11_FirstDigitRun ==
    (~loading /\ Len(ingredients) = 1) =>
        totalCalories = FirstRunValue(ingredients[1].kcal)

\* C11 witness: a calories string with two runs of digits, "1" and "2", and a
\* deleted character between them, was parsed
C11_Witness ==
    /\ ~loading /\ Len(ingredients) = 1
    /\ ingredients[1].kcal = <<"1", "g", "2">>

\* C12: the date key of an appended entry, and the date a render shows as
\* today with its total, is the calendar date of the user's local wall clock
\* at that moment, whatever the time of day and the offset of the time zone.
C12_LocalDateKey ==
    [][/\ Len(appendLog') = Len(appendLog) + 1 =>
             appendLog'[Len(appendLog')].date = LocalDate(now, tzOffset)
       /\ appState' # appState =>
             /\ today' = LocalDate(now, tzOffset)
             /\ totalToday' = getTotalForDate(dailyRecords', LocalDate(now, tzOffset))]_vars

\* C12 witness: an entry was appended in a time zone ahead of UTC at a time
\* of day when the local date is already the next one
C12_Witness ==
    /\ Len(appendLog) = 1
    /\ tzOffset = 1
    /\ LocalDate(now, tzOffset) # todayISO(now)

\* C13: whatever the order of startEditRecipe, deleteRecipe, saveEditedRecipe
\* and cancel, a save (the step that changes an element of the list without
\* changing its length) changes only the name of the recipe on which
\* startEditRecipe was invoked, never another recipe whose index shifted
\* after a deletion; and every element of registeredRecipes has a name and an
\* ingredients list (no save writes past the end of the list).
C13_SaveRenamesEditedRecipe ==
    [][/\ (registeredRecipes' # registeredRecipes
              /\ Len(registeredRecipes') = Len(registeredRecipes)) =>
             \A k \in 1..Len(registeredRecipes) :
                 registeredRecipes'[k] # registeredRecipes[k] =>
                     /\ registeredRecipes[k].ingredients = editTarget
                     /\ registeredRecipes'[k].ingredients = registeredRecipes[k].ingredients
       /\ \A k \in 1..Len(registeredRecipes') :
             DOMAIN registeredRecipes'[k] = {"name", "ingredients"}]_vars

\* C13 witness: the row of one recipe was opened for editing and a row above
\* it was deleted, so the edit fields are now shown in the row of another
\* recipe
C13_Witness ==
    /\ editTarget # NoTarget
    /\ EditRowShown
    /\ RecipeAt(editingIndex).ingredients # editTarget

=============================================================================
